---------------------------- MODULE Spec2Model ----------------------------
(***************************************************************************)
(* Marker synchronisation and viewport fitting of the map view             *)
(* (src/src/components/map/MapMarkers.tsx).                                *)
(*                                                                         *)
(* createMarkers and fitMapToMarkers are synchronous functions run on the  *)
(* single UI thread, so each call is one atomic action. The module-level   *)
(* markerCache persists between calls. Leaflet objects are modelled by the *)
(* part of their state the two functions read or write: a marker is a heap *)
(* object (identity = its index in markerObjs), a map has a set of         *)
(* attached layers and a view (center, zoom).                              *)
(*                                                                         *)
(* Units: latitudes/longitudes are integers in 1e-4 degree, zoom levels    *)
(* are integers in 1/ZoomUnit of a level.                                  *)
(***************************************************************************)
EXTENDS Integers, Sequences, FiniteSets

VARIABLES
    markerCache,   \* Map<string, L.Marker>: composite key -> marker handle
    markerObjs,    \* every L.Marker ever constructed, by handle 1..Len
    layers,        \* per map: the set of handles attached (map._layers)
    view,          \* per map: [center, zoom]
    last           \* the call that produced this state, with its inputs, result and effects

vars == <<markerCache, markerObjs, layers, view, last>>

---------------------------------------------------------------------------
(* Bounds of the model                                                     *)

MaxLen == 2        \* longest warehouses / chauffeurs input list
MaxMarkers == 3    \* L.Marker objects constructed in one behaviour of Spec
MaxFitLen == 2     \* longest marker list handed to fitMapToMarkers
MaxViewMarkers == 2  \* L.Marker objects constructed in one behaviour of SpecView
MaxViewLen == 1    \* longest input list of a pass of SpecView
MaxReuseMarkers == 3  \* L.Marker objects constructed in one behaviour of SpecReuse

---------------------------------------------------------------------------
(* Input domain                                                            *)

\* Stand-in for the IEEE NaN among the `number` values of lat / lng.
NaN == -9999999

WarehouseIds == {"1", "2"}
ChauffeurIds == {"1"}
Maps == {"mapA", "mapB"}

P1 == [lat |-> 100000, lng |-> 100000]   \* (10, 10)
P2 == [lat |-> 200000, lng |-> 200000]   \* (20, 20)
BadCoord == [lat |-> NaN, lng |-> 30000]

\* Optional field `coordinates?`: <<>> when absent, <<c>> when present.
NoCoordinates == <<>>
HasCoordinates(chauffeur) == chauffeur.coordinates # NoCoordinates
CoordinatesOf(chauffeur) == chauffeur.coordinates[1]

\* A `string` is the sequence of its code points.
DepotName == <<68, 233, 112, 244, 116, 32, 78>>     \* "D\'ep\^ot N"
PlainName == <<65, 45, 49>>                         \* "A-1"
AmpName == <<38, 61>>                               \* "&="
DriverName == <<65, 108, 105>>                      \* "Ali"

Warehouse == [id : WarehouseIds, name : {PlainName}, coordinates : {P1}]
Chauffeur == [id : ChauffeurIds, fullName : {DriverName}, employeeType : {"interne"},
              coordinates : {NoCoordinates, <<P2>>, <<BadCoord>>}]

\* The options of createMarkers other than the lists and the map (lines 24-32).
\* An optional callback that is not supplied is `undefined`.
Undefined == "undefined"
Options(isMobile, onWarehouseClick, onChauffeurClick) ==
    [isMobile |-> isMobile, onWarehouseClick |-> onWarehouseClick,
     onChauffeurClick |-> onChauffeurClick]
DesktopOptions == Options(FALSE, Undefined, Undefined)

RECURSIVE SeqsUpTo(_, _)
SeqsUpTo(S, n) ==
    IF n = 0 THEN {<<>>}
    ELSE LET shorter == SeqsUpTo(S, n - 1)
         IN  shorter \cup {Append(s, x) : s \in {t \in shorter : Len(t) = n - 1}, x \in S}

WarehouseLists == SeqsUpTo(Warehouse, MaxLen)
ChauffeurLists == SeqsUpTo(Chauffeur, MaxLen)

Range(s) == {s[i] : i \in 1..Len(s)}

---------------------------------------------------------------------------
(* Leaflet objects                                                         *)

IsNaN(x) == x = NaN

\* new LatLng(lat, lng) throws 'Invalid LatLng object' when either is NaN.
InvalidLatLng(c) == IsNaN(c.lat) \/ IsNaN(c.lng)

\* One key space for both kinds of record.
WarehouseKeyOfIdAlone(warehouse) == <<"chauffeur", warehouse.id>>

WarehouseKey(warehouse) == <<"warehouse", warehouse.id>>
ChauffeurKey(chauffeur) == <<"chauffeur", chauffeur.id>>

WarehouseIconToUse(isMobile) == IF isMobile THEN "warehouseIcon" ELSE "desktopWarehouseIcon"
ChauffeurIconToUse(isMobile) == IF isMobile THEN "chauffeurIcon" ELSE "desktopChauffeurIcon"

\* L.marker(latlng, {icon}) followed by bindPopup and on('click', ...): the
\* marker with its position, icon, popup and click listener. `record` and
\* `callback` are what the listener's closure captured.
NewMarker(c, icon, popup, rec, callback) ==
    [latlng |-> c, icon |-> icon, popup |-> popup, record |-> rec, callback |-> callback]

\* map.hasLayer(marker)
HasLayer(ls, h) == h \in ls

\* marker.addTo(map)
AddTo(ls, h) == ls \cup {h}

\* map.removeLayer(marker), for each marker of `hs`: a no-op for a marker that
\* is not a layer of this map
RemoveLayers(ls, hs) == ls \ hs

---------------------------------------------------------------------------
(* createMarkers                                                           *)

\* The locals of one running call, together with the globals it mutates.
\*   cache, objs, ls  : markerCache, the marker heap, the layers of `map`
\*   markers, ids     : the locals `markers` and `currentMarkerIds`
\*   created, added, removed : effects, for the record in `last`
\*   threw            : an exception left the function
StartCall(map) ==
    [cache |-> markerCache, objs |-> markerObjs, ls |-> layers[map],
     markers |-> <<>>, ids |-> {}, created |-> <<>>, added |-> <<>>,
     removed |-> {}, threw |-> FALSE]

\* addTo without the hasLayer test.
AttachAlwaysAndPush(st, h) ==
    [st EXCEPT !.ls = AddTo(@, h), !.added = Append(@, h), !.markers = Append(@, h)]

\* push without attaching.
PushOnly(st, h) == [st EXCEPT !.markers = Append(@, h)]

\* Lines 100-105 and 157-162: attach when not yet a layer of the map, push.
AttachAndPush(st, h) ==
    [st EXCEPT !.ls = IF HasLayer(st.ls, h) THEN @ ELSE AddTo(@, h),
               !.added = IF HasLayer(st.ls, h) THEN @ ELSE Append(@, h),
               !.markers = Append(@, h)]


\* A cached marker brought up to date with the record and options of the pass.
LookupOrCreateRefresh(st, key, fresh) ==
    LET seen == [st EXCEPT !.ids = @ \cup {key}]
    IN  IF key \in DOMAIN seen.cache
        THEN IF InvalidLatLng(fresh.latlng)
             THEN [seen EXCEPT !.threw = TRUE]
             ELSE AttachAndPush([seen EXCEPT !.objs[seen.cache[key]] = fresh],
                                seen.cache[key])
        ELSE IF InvalidLatLng(fresh.latlng)
        THEN [seen EXCEPT !.threw = TRUE]
        ELSE LET h == Len(seen.objs) + 1
                 made == [seen EXCEPT
                            !.objs = Append(@, fresh),
                            !.created = Append(@, h),
                            !.cache = [k \in DOMAIN @ \cup {key} |->
                                          IF k = key THEN h ELSE @[k]]]
             IN  AttachAndPush(made, h)

\* No cache lookup: a marker is constructed for every record.
LookupOrCreateAlways(st, key, fresh) ==
    LET seen == [st EXCEPT !.ids = @ \cup {key}]
    IN  IF InvalidLatLng(fresh.latlng)
        THEN [seen EXCEPT !.threw = TRUE]
        ELSE LET h == Len(seen.objs) + 1
                 made == [seen EXCEPT
                            !.objs = Append(@, fresh),
                            !.created = Append(@, h),
                            !.cache = [k \in DOMAIN @ \cup {key} |->
                                          IF k = key THEN h ELSE @[k]]]
             IN  AttachAndPush(made, h)

\* Lines 54-98 / 114-155: look the key up, construct and cache on a miss.
\* `fresh` is the marker the miss branch builds.
LookupOrCreate(st, key, fresh) ==
    LET seen == [st EXCEPT !.ids = @ \cup {key}]
    IN  IF key \in DOMAIN seen.cache
        THEN AttachAndPush(seen, seen.cache[key])
        ELSE IF InvalidLatLng(fresh.latlng)
        THEN [seen EXCEPT !.threw = TRUE]
        ELSE LET h == Len(seen.objs) + 1
                 made == [seen EXCEPT
                            !.objs = Append(@, fresh),
                            !.created = Append(@, h),
                            !.cache = [k \in DOMAIN @ \cup {key} |->
                                          IF k = key THEN h ELSE @[k]]]
             IN  AttachAndPush(made, h)

\* encodeURIComponent: every code point outside A-Z a-z 0-9 - _ . ! ~ * ' ( )
\* becomes the %XX escapes of its UTF-8 bytes, with upper-case hex digits.
UriUnreserved ==
    (65..90) \cup (97..122) \cup (48..57) \cup {45, 95, 46, 33, 126, 42, 39, 40, 41}

Utf8(cp) ==
    IF cp < 128 THEN <<cp>>
    ELSE IF cp < 2048 THEN <<192 + (cp \div 64), 128 + (cp % 64)>>
    ELSE <<224 + (cp \div 4096), 128 + ((cp \div 64) % 64), 128 + (cp % 64)>>

HexDigit(n) == IF n < 10 THEN 48 + n ELSE 55 + n

PercentByte(b) == <<37, HexDigit(b \div 16), HexDigit(b % 16)>>

RECURSIVE PercentBytes(_)
PercentBytes(bytes) ==
    IF bytes = <<>> THEN <<>>
    ELSE PercentByte(Head(bytes)) \o PercentBytes(Tail(bytes))

RECURSIVE EncodeURIComponent(_)
EncodeURIComponent(str) ==
    IF str = <<>> THEN <<>>
    ELSE (IF Head(str) \in UriUnreserved THEN <<Head(str)>>
          ELSE PercentBytes(Utf8(Head(str))))
         \o EncodeURIComponent(Tail(str))

\* The name interpolated as it is.
CreateGoogleMapsLinkUnencoded(lat, lng, name) ==
    <<"https://www.google.com/maps/search/?api=1&query=", lat, ",", lng,
      "&query_place_id=", name>>

\* Lines 19-22: the pieces of the template literal, in order.
CreateGoogleMapsLink(lat, lng, name) ==
    <<"https://www.google.com/maps/search/?api=1&query=", lat, ",", lng,
      "&query_place_id=", EncodeURIComponent(name)>>

\* Lines 117-119. "TP - " is 84 80 32 45 32.
DisplayName(chauffeur) ==
    IF chauffeur.employeeType = "externe"
    THEN <<84, 80, 32, 45, 32>> \o chauffeur.fullName
    ELSE chauffeur.fullName

\* A popup is its heading, the hrefs of its <a> elements, in order, and the
\* widths of lines 42-43.
\* Lines 61-86: the warehouse popup ends with the Google Maps link.
WarehousePopup(warehouse, isMobile) ==
    [heading |-> warehouse.name,
     links |-> <<CreateGoogleMapsLink(warehouse.coordinates.lat,
                                      warehouse.coordinates.lng, warehouse.name)>>,
     minWidth |-> IF isMobile THEN 280 ELSE 200,
     maxWidth |-> IF isMobile THEN 320 ELSE 250]

\* Lines 125-143: the chauffeur popup has no <a> element.
ChauffeurPopup(chauffeur, isMobile) ==
    [heading |-> DisplayName(chauffeur),
     links |-> <<>>,
     minWidth |-> IF isMobile THEN 280 ELSE 200,
     maxWidth |-> IF isMobile THEN 320 ELSE 250]

\* Body of warehouses.forEach (lines 50-106).
ProcessWarehouse(st, warehouse, opts) ==
    LookupOrCreate(st, WarehouseKey(warehouse),
                   NewMarker(warehouse.coordinates, WarehouseIconToUse(opts.isMobile),
                             WarehousePopup(warehouse, opts.isMobile),
                             warehouse, opts.onWarehouseClick))

\* No test of chauffeur.coordinates: reading .lat of undefined throws.
ProcessChauffeurUnguarded(st, chauffeur, opts) ==
    IF HasCoordinates(chauffeur)
    THEN LookupOrCreate(st, ChauffeurKey(chauffeur),
                        NewMarker(CoordinatesOf(chauffeur), ChauffeurIconToUse(opts.isMobile),
                                  ChauffeurPopup(chauffeur, opts.isMobile),
                                  chauffeur, opts.onChauffeurClick))
    ELSE [st EXCEPT !.threw = TRUE]

\* The chauffeur listener given the warehouse callback.
ProcessChauffeurWarehouseCallback(st, chauffeur, opts) ==
    IF HasCoordinates(chauffeur)
    THEN LookupOrCreate(st, ChauffeurKey(chauffeur),
                        NewMarker(CoordinatesOf(chauffeur), ChauffeurIconToUse(opts.isMobile),
                                  ChauffeurPopup(chauffeur, opts.isMobile),
                                  chauffeur, opts.onWarehouseClick))
    ELSE st

\* Body of chauffeurs.forEach (lines 109-164).
ProcessChauffeur(st, chauffeur, opts) ==
    IF HasCoordinates(chauffeur)
    THEN LookupOrCreate(st, ChauffeurKey(chauffeur),
                        NewMarker(CoordinatesOf(chauffeur), ChauffeurIconToUse(opts.isMobile),
                                  ChauffeurPopup(chauffeur, opts.isMobile),
                                  chauffeur, opts.onChauffeurClick))
    ELSE st

RECURSIVE ForEachWarehouse(_, _, _, _)
ForEachWarehouse(st, warehouses, i, opts) ==
    IF i > Len(warehouses) \/ st.threw THEN st
    ELSE ForEachWarehouse(ProcessWarehouse(st, warehouses[i], opts),
                          warehouses, i + 1, opts)

RECURSIVE ForEachChauffeur(_, _, _, _)
ForEachChauffeur(st, chauffeurs, i, opts) ==
    IF i > Len(chauffeurs) \/ st.threw THEN st
    ELSE ForEachChauffeur(ProcessChauffeur(st, chauffeurs[i], opts),
                          chauffeurs, i + 1, opts)

\* removeLayer without markerCache.delete.
RemoveStaleKeepEntry(st) ==
    IF st.threw THEN st
    ELSE LET gone == {st.cache[k] : k \in {j \in DOMAIN st.cache : j \notin st.ids}}
         IN  [st EXCEPT !.ls = RemoveLayers(@, gone), !.removed = gone]

\* markerCache.delete without removeLayer.
RemoveStaleKeepLayer(st) ==
    IF st.threw THEN st
    ELSE LET stale == {k \in DOMAIN st.cache : k \notin st.ids}
         IN  [st EXCEPT !.cache = [k \in DOMAIN @ \ stale |-> @[k]]]

\* markerCache.forEach of lines 166-172: detach and evict what this pass did not
\* see. `removed` is the set of markers handed to removeLayer.
RemoveStale(st) ==
    IF st.threw THEN st
    ELSE LET stale == {k \in DOMAIN st.cache : k \notin st.ids}
             gone == {st.cache[k] : k \in stale}
         IN  [st EXCEPT !.ls = RemoveLayers(@, gone),
                        !.removed = gone,
                        !.cache = [k \in DOMAIN @ \ stale |-> @[k]]]

\* The chauffeurs loop placed before the warehouses loop.
RunChauffeursFirst(warehouses, chauffeurs, map, opts) ==
    RemoveStale(
        ForEachWarehouse(
            ForEachChauffeur(StartCall(map), chauffeurs, 1, opts),
            warehouses, 1, opts))

RunCreateMarkers(warehouses, chauffeurs, map, opts) ==
    RemoveStale(
        ForEachChauffeur(
            ForEachWarehouse(StartCall(map), warehouses, 1, opts),
            chauffeurs, 1, opts))

\* Stale markers detached from every map, not only from the one passed in.
CreateMarkersDetachEverywhere(warehouses, chauffeurs, map, opts) ==
    LET end == RunCreateMarkers(warehouses, chauffeurs, map, opts)
    IN  /\ Len(end.objs) <= MaxMarkers
        /\ markerCache' = end.cache
        /\ markerObjs' = end.objs
        /\ layers' = [m \in Maps |-> IF m = map THEN end.ls
                                     ELSE RemoveLayers(layers[m], end.removed)]
        /\ last' = [op |-> "createMarkers",
                    warehouses |-> warehouses, chauffeurs |-> chauffeurs,
                    map |-> map, opts |-> opts,
                    status |-> IF end.threw THEN "threw" ELSE "returned",
                    returned |-> IF end.threw THEN <<>> ELSE end.markers,
                    created |-> end.created, added |-> end.added,
                    removed |-> end.removed]
        /\ UNCHANGED view

CreateMarkers(warehouses, chauffeurs, map, opts) ==
    LET end == RunCreateMarkers(warehouses, chauffeurs, map, opts)
    IN  /\ Len(end.objs) <= MaxMarkers
        /\ markerCache' = end.cache
        /\ markerObjs' = end.objs
        /\ layers' = [layers EXCEPT ![map] = end.ls]
        /\ last' = [op |-> "createMarkers",
                    warehouses |-> warehouses, chauffeurs |-> chauffeurs,
                    map |-> map, opts |-> opts,
                    status |-> IF end.threw THEN "threw" ELSE "returned",
                    returned |-> IF end.threw THEN <<>> ELSE end.markers,
                    created |-> end.created, added |-> end.added,
                    removed |-> end.removed]
        /\ UNCHANGED view

---------------------------------------------------------------------------
(* fitMapToMarkers                                                         *)

DefaultCenter == [lat |-> 280339, lng |-> 16596]   \* [28.0339, 1.6596]
DefaultZoom == 6
MaxZoom == 15
Padding == 20

\* Zoom levels are kept in 1/ZoomUnit of a level, so that the fractional
\* zooms a map can be left at are values of the model.
ZoomUnit == 2

Abs(x) == IF x < 0 THEN -x ELSE x
Min(a, b) == IF a <= b THEN a ELSE b

RECURSIVE MinOf(_)
MinOf(S) == LET x == CHOOSE y \in S : TRUE
            IN  IF S = {x} THEN x ELSE Min(x, MinOf(S \ {x}))
MaxOf(S) == -MinOf({-x : x \in S})

\* The box of the first marker alone.
GetBoundsOfFirst(markers) ==
    LET p == markerObjs[markers[1]].latlng
    IN  [south |-> p.lat, north |-> p.lat, west |-> p.lng, east |-> p.lng]

\* L.featureGroup(markers).getBounds(): the box extended by every marker's latlng.
GetBounds(markers) ==
    LET pos == {markerObjs[markers[i]].latlng : i \in 1..Len(markers)}
    IN  [south |-> MinOf({p.lat : p \in pos}), north |-> MaxOf({p.lat : p \in pos}),
         west |-> MinOf({p.lng : p \in pos}), east |-> MaxOf({p.lng : p \in pos})]

\* The map of the host page: its pixel width and its own zoom range.
ViewportPx == 800
MapMaxZoom == 18
\* 1e-4 degrees per pixel at zoom 0 (256 px for 360 degrees).
UnitsPerPx == 3600000 \div 256

\* map.getBoundsZoom(bounds, false, padding): the largest zoom of the map at
\* which the box still fits into the viewport less the padding on both sides;
\* a zero-area box fits at every zoom, so the map's own maximum is the answer.
RECURSIVE LargestFittingZoom(_, _, _)
LargestFittingZoom(span, room, z) ==
    IF z = MapMaxZoom \/ 2 * span > room THEN z
    ELSE LargestFittingZoom(2 * span, room, z + 1)

GetBoundsZoom(bounds, padding) ==
    LET lat == bounds.north - bounds.south
        lng == bounds.east - bounds.west
        span == IF lat >= lng THEN lat ELSE lng
    IN  LargestFittingZoom(span, (ViewportPx - 2 * padding) * UnitsPerPx, 0)

GetCenter(bounds) ==
    [lat |-> (bounds.south + bounds.north) \div 2,
     lng |-> (bounds.west + bounds.east) \div 2]

\* map.fitBounds(bounds, {padding: [p, p], maxZoom}): the view it sets.
FitBounds(bounds, padding, maxZoom) ==
    [center |-> GetCenter(bounds),
     zoom |-> Min(maxZoom, GetBoundsZoom(bounds, padding)) * ZoomUnit]

\* map.setView(center, zoom)
SetView(center, zoom) == [center |-> center, zoom |-> zoom * ZoomUnit]

\* <= 1 in place of < 1.
WithinOneOfDefaultZoom(currentZoom) ==
    Abs(currentZoom - DefaultZoom * ZoomUnit) <= 1 * ZoomUnit

\* Line 192: Math.abs(currentZoom - defaultZoom) < 1
NearDefaultZoom(currentZoom) == Abs(currentZoom - DefaultZoom * ZoomUnit) < 1 * ZoomUnit

\* forceRefresh tested first, the empty list only in the passive branch.
FitBranchForceFirst(markers, forceRefresh, currentZoom) ==
    IF forceRefresh THEN IF Len(markers) > 0 THEN "fit" ELSE "none"
    ELSE IF Len(markers) > 0
         THEN IF NearDefaultZoom(currentZoom) THEN "fit" ELSE "none"
         ELSE "default"

\* Which branch of lines 178-204 runs.
FitBranch(markers, forceRefresh, currentZoom) ==
    IF Len(markers) > 0 /\ forceRefresh THEN "fit"
    ELSE IF Len(markers) > 0
         THEN IF NearDefaultZoom(currentZoom) THEN "fit" ELSE "none"
         ELSE "default"

FitMapToMarkers(map, markers, forceRefresh) ==
    LET branch == FitBranch(markers, forceRefresh, view[map].zoom)
        bounds == GetBounds(markers)
    IN  /\ view' = [view EXCEPT ![map] =
                        CASE branch = "fit" -> FitBounds(bounds, Padding, MaxZoom)
                          [] branch = "default" -> SetView(DefaultCenter, DefaultZoom)
                          [] OTHER -> @]
        /\ last' = [op |-> "fitMapToMarkers", map |-> map, markers |-> markers,
                    forceRefresh |-> forceRefresh, zoomBefore |-> view[map].zoom,
                    viewBefore |-> view[map],
                    fitBounds |-> IF branch = "fit"
                                  THEN <<[bounds |-> bounds, padding |-> <<Padding, Padding>>,
                                          maxZoom |-> MaxZoom]>>
                                  ELSE <<>>,
                    setView |-> IF branch = "default"
                                THEN <<[center |-> DefaultCenter, zoom |-> DefaultZoom]>>
                                ELSE <<>>]
        /\ UNCHANGED <<markerCache, markerObjs, layers>>

---------------------------------------------------------------------------
(* The host page                                                           *)

\* The user zooms the map by hand (wheel, pinch, zoom control).
UserZooms == {DefaultZoom * ZoomUnit + d : d \in {-2, -1, 1, 2, 8}}

UserZoom(map, zoom) ==
    /\ view[map].zoom # zoom
    /\ view' = [view EXCEPT ![map].zoom = zoom]
    /\ last' = [op |-> "userZoom", map |-> map]
    /\ UNCHANGED <<markerCache, markerObjs, layers>>

\* The user drags the map by hand: the centre moves, the zoom stays.
UserCenters == {P1, P2}

UserPan(map, center) ==
    /\ view[map].center # center
    /\ view' = [view EXCEPT ![map].center = center]
    /\ last' = [op |-> "userPan", map |-> map]
    /\ UNCHANGED <<markerCache, markerObjs, layers>>

\* openPopup with autoPan: true (lines 83, 140): the centre stays when the
\* popup fits in the viewport and moves towards the marker when it does not,
\* at most as far as the marker itself.
AutoPan(v, marker) == {v, [v EXCEPT !.center = marker.latlng]}

\* The listener of lines 89-94 / 146-151: the calls it makes, in order.
ClickListener(h) ==
    [openPopup |-> <<h>>,
     calls |-> IF markerObjs[h].callback # Undefined
               THEN <<[fn |-> markerObjs[h].callback, arg |-> markerObjs[h].record]>>
               ELSE <<>>]

\* The user clicks marker `h`, displayed on `map`.
Click(map, h) ==
    /\ h \in layers[map]
    /\ \E v \in AutoPan(view[map], markerObjs[h]) : view' = [view EXCEPT ![map] = v]
    /\ last' = [op |-> "click", map |-> map, marker |-> h,
                openPopup |-> ClickListener(h).openPopup,
                calls |-> ClickListener(h).calls]
    /\ UNCHANGED <<markerCache, markerObjs, layers>>

\* `last` is the record of the call made in the current UI tick: its
\* arguments, what it returned and the Leaflet calls it made. The tick ends,
\* the record is dropped; the next call starts from the program state alone.
EndTick ==
    /\ last.op # "none"
    /\ last' = [op |-> "none"]
    /\ UNCHANGED <<markerCache, markerObjs, layers, view>>

Idle == last.op = "none"

---------------------------------------------------------------------------
(* Specifications                                                          *)

Init ==
    /\ markerCache = <<>>
    /\ markerObjs = <<>>
    /\ layers = [m \in Maps |-> {}]
    /\ view = [m \in Maps |-> SetView(DefaultCenter, DefaultZoom)]
    /\ last = [op |-> "none"]

\* Synchronisation passes on one map surface.
Sync ==
    \E warehouses \in WarehouseLists, chauffeurs \in ChauffeurLists :
        Idle /\ CreateMarkers(warehouses, chauffeurs, "mapA", DesktopOptions)

Next == Sync \/ EndTick

Spec == Init /\ [][Next]_vars

\* Passes on two map surfaces; viewport fits and manual zooms on one of them.
ViewWarehouseLists ==
    SeqsUpTo([id : {"1"}, name : {PlainName}, coordinates : {P1}], MaxViewLen)
ViewChauffeurLists ==
    SeqsUpTo([id : {"1"}, fullName : {DriverName}, employeeType : {"interne"},
              coordinates : {<<P2>>}], MaxViewLen)

\* The marker lists handed to fitMapToMarkers: existing markers, in creation order.
Increasing(s) == \A i \in 1..Len(s) - 1 : s[i] < s[i + 1]
MarkerLists == {s \in SeqsUpTo(1..MaxViewMarkers, MaxFitLen) : Increasing(s)}

SyncView ==
    \E warehouses \in ViewWarehouseLists, chauffeurs \in ViewChauffeurLists,
       map \in Maps :
        /\ Idle
        /\ CreateMarkers(warehouses, chauffeurs, map, DesktopOptions)
        /\ Len(markerObjs') <= MaxViewMarkers

Fit ==
    \E markers \in MarkerLists, forceRefresh \in BOOLEAN :
        /\ Idle
        /\ Range(markers) \subseteq 1..Len(markerObjs)
        /\ FitMapToMarkers("mapA", markers, forceRefresh)

Zoom == \E zoom \in UserZooms : Idle /\ UserZoom("mapA", zoom)

NextView == SyncView \/ Fit \/ Zoom \/ EndTick

SpecView == Init /\ [][NextView]_vars

\* Passes over warehouses and chauffeurs whose names need percent-encoding.
LinkWarehouseLists ==
    SeqsUpTo([id : {"1"}, name : {PlainName, DepotName, AmpName}, coordinates : {P1}],
             MaxViewLen)
LinkChauffeurLists ==
    SeqsUpTo([id : {"1"}, fullName : {DriverName}, employeeType : {"interne", "externe"},
              coordinates : {<<P2>>}], MaxViewLen)

SyncLink ==
    \E warehouses \in LinkWarehouseLists, chauffeurs \in LinkChauffeurLists :
        /\ Idle
        /\ CreateMarkers(warehouses, chauffeurs, "mapA", DesktopOptions)
        /\ Len(markerObjs') <= MaxViewMarkers

NextLink == SyncLink \/ EndTick

SpecLink == Init /\ [][NextLink]_vars


\* Passes whose warehouse record changes position between passes, on desktop
\* without callbacks or on mobile with both callbacks.
ReuseWarehouseLists ==
    SeqsUpTo([id : {"1"}, name : {PlainName}, coordinates : {P1, P2}], MaxViewLen)
ReuseChauffeurLists ==
    SeqsUpTo([id : {"1"}, fullName : {DriverName}, employeeType : {"interne"},
              coordinates : {<<P2>>}], MaxViewLen)
ReuseOptions == {DesktopOptions, Options(TRUE, "onWarehouseClick", "onChauffeurClick")}

SyncReuse ==
    \E warehouses \in ReuseWarehouseLists, chauffeurs \in ReuseChauffeurLists,
       opts \in ReuseOptions :
        /\ Idle
        /\ CreateMarkers(warehouses, chauffeurs, "mapA", opts)
        /\ Len(markerObjs') <= MaxReuseMarkers

NextReuse == SyncReuse \/ EndTick

SpecReuse == Init /\ [][NextReuse]_vars


\* Manual navigation and viewport fits on one map surface, each operation
\* following the previous one directly: `last` is the operation before.
NavSync ==
    \E warehouses \in ViewWarehouseLists, chauffeurs \in ViewChauffeurLists :
        /\ CreateMarkers(warehouses, chauffeurs, "mapA", DesktopOptions)
        /\ Len(markerObjs') <= MaxViewMarkers

NavFit ==
    \E markers \in MarkerLists, forceRefresh \in BOOLEAN :
        /\ Range(markers) \subseteq 1..Len(markerObjs)
        /\ FitMapToMarkers("mapA", markers, forceRefresh)

NavZoom == \E zoom \in UserZooms : UserZoom("mapA", zoom)

NavPan == \E center \in UserCenters : UserPan("mapA", center)

NextNav == NavSync \/ NavFit \/ NavZoom \/ NavPan

SpecNav == Init /\ [][NextNav]_vars


\* Passes with and without callbacks on one map surface, and clicks on the
\* markers it displays.
ClickOptions ==
    {Options(FALSE, onWarehouseClick, onChauffeurClick) :
        onWarehouseClick \in {Undefined, "onWarehouseClick"},
        onChauffeurClick \in {Undefined, "onChauffeurClick"}}

SyncClick ==
    \E warehouses \in ViewWarehouseLists, chauffeurs \in ViewChauffeurLists,
       opts \in ClickOptions :
        /\ Idle
        /\ CreateMarkers(warehouses, chauffeurs, "mapA", opts)
        /\ Len(markerObjs') <= MaxViewMarkers

ClickMarker == \E h \in 1..Len(markerObjs) : Idle /\ Click("mapA", h)

NextClick == SyncClick \/ ClickMarker \/ EndTick

SpecClick == Init /\ [][NextClick]_vars

---------------------------------------------------------------------------
(* Properties of createMarkers                                             *)

Pass == last.op = "createMarkers"
Returned == Pass /\ last.status = "returned"

\* The composite keys the input of a pass asks for: every warehouse, every
\* chauffeur that has coordinates.
Qualifies(chauffeur) == chauffeur.coordinates # <<>>
TargetKeys(warehouses, chauffeurs) ==
    {<<"warehouse", w.id>> : w \in Range(warehouses)}
        \cup {<<"chauffeur", c.id>> : c \in {d \in Range(chauffeurs) : Qualifies(d)}}

CachedHandles == {markerCache[k] : k \in DOMAIN markerCache}

\* C1 (key-set convergence): at the end of every pass that returns, the keys of
\* markerCache are exactly the warehouse keys of the input warehouses and the
\* chauffeur keys of the input chauffeurs that have coordinates; a key of an
\* earlier pass that this input does not ask for is gone.
C1_KeySetConvergence ==
    Returned => DOMAIN markerCache = TargetKeys(last.warehouses, last.chauffeurs)

\* A pass that created a marker, evicted another and skipped a chauffeur that
\* has no coordinates.
C1_Witness ==
    /\ Returned
    /\ last.created # <<>>
    /\ last.removed # {}
    /\ \E i \in 1..Len(last.chauffeurs) : ~Qualifies(last.chauffeurs[i])

\* C2 (surface mirrors cache): with every pass on the same map surface, at the
\* end of a pass that returns the markers attached to the map are exactly the
\* handles in markerCache, one handle per key, and every target key has one.
C2_AttachedIsCached ==
    Returned =>
        /\ layers[last.map] = CachedHandles
        /\ \A j, k \in DOMAIN markerCache : markerCache[j] = markerCache[k] => j = k
        /\ \A k \in TargetKeys(last.warehouses, last.chauffeurs) :
               k \in DOMAIN markerCache /\ markerCache[k] \in layers[last.map]

\* A pass that attached a new marker, detached a stale one and kept a third.
C2_Witness ==
    /\ Returned
    /\ last.added # <<>>
    /\ last.removed # {}
    /\ \E h \in layers[last.map] : h \notin Range(last.added)

\* C3 (idempotence): run again with the arguments of the pass that has just
\* returned, createMarkers constructs nothing, calls neither addTo nor
\* removeLayer, leaves markerCache, the markers and the map's layers as they
\* are and returns the same handles in the same order.
C3_Idempotent ==
    Returned =>
        LET again == RunCreateMarkers(last.warehouses, last.chauffeurs, last.map,
                                      last.opts)
        IN  /\ ~again.threw
            /\ again.created = <<>>
            /\ again.added = <<>>
            /\ again.removed = {}
            /\ again.cache = markerCache
            /\ again.objs = markerObjs
            /\ again.ls = layers[last.map]
            /\ again.markers = last.returned

\* The first of the two calls did create, attach and detach, and returned
\* more than one handle.
C3_Witness ==
    /\ Returned
    /\ last.created # <<>>
    /\ last.removed # {}
    /\ Len(last.returned) >= 2

\* C4 (removal): a key that is cached when a pass starts and that the input of
\* the pass does not ask for (a chauffeur left out or now without coordinates,
\* a warehouse left out) is, when the pass returns, no key of markerCache, and
\* its marker is neither a layer of the pass's map nor in the returned list.
C4_Removal ==
    [][(last'.op = "createMarkers" /\ last'.status = "returned") =>
          \A k \in DOMAIN markerCache :
              k \notin TargetKeys(last'.warehouses, last'.chauffeurs) =>
                  /\ k \notin DOMAIN markerCache'
                  /\ markerCache[k] \notin layers'[last'.map]
                  /\ markerCache[k] \notin Range(last'.returned)]_vars

\* A pass that lists a chauffeur without coordinates and detached the marker
\* an earlier pass had made for that chauffeur.
C4_Witness ==
    /\ Returned
    /\ \E i \in 1..Len(last.chauffeurs) :
           /\ ~Qualifies(last.chauffeurs[i])
           /\ \E h \in last.removed :
                  /\ markerObjs[h].icon = "desktopChauffeurIcon"
                  /\ markerObjs[h].record.id = last.chauffeurs[i].id

\* C5 (exclusion): every marker a pass constructs is built from an input
\* warehouse or from an input chauffeur that has coordinates; a chauffeur id
\* that the input lists only without coordinates has no cache entry when the
\* pass returns, and no marker of it is attached or returned; a pass throws
\* only when an input record carries an invalid coordinate, and a pass that
\* returns has returned one handle per qualifying record.
C5_Exclusion ==
    Pass =>
        LET qualifying == {c \in Range(last.chauffeurs) : Qualifies(c)}
            excluded == {c.id : c \in Range(last.chauffeurs)} \ {c.id : c \in qualifying}
            ofChauffeur(h) == markerObjs[h].icon \in {"chauffeurIcon", "desktopChauffeurIcon"}
            ofExcluded(h) == ofChauffeur(h) /\ markerObjs[h].record.id \in excluded
        IN  /\ \A h \in Range(last.created) :
                   IF ofChauffeur(h) THEN markerObjs[h].record \in qualifying
                   ELSE markerObjs[h].record \in Range(last.warehouses)
            /\ \A h \in Range(last.created) \cup Range(last.added) \cup Range(last.returned) :
                   ~ofExcluded(h)
            /\ Returned => \A id \in excluded : <<"chauffeur", id>> \notin DOMAIN markerCache
            /\ Returned => \A h \in layers[last.map] : ~ofExcluded(h)
            /\ last.status = "threw" =>
                   \/ \E w \in Range(last.warehouses) : InvalidLatLng(w.coordinates)
                   \/ \E c \in qualifying : InvalidLatLng(c.coordinates[1])
            /\ Returned =>
                   Len(last.returned) = Len(last.warehouses) + Len(SelectSeq(last.chauffeurs, Qualifies))

\* A chauffeur record without coordinates comes first in the list; the record
\* after it has coordinates and the pass built its marker from that record.
C5_Witness ==
    /\ Returned
    /\ Len(last.chauffeurs) = 2
    /\ ~Qualifies(last.chauffeurs[1])
    /\ Qualifies(last.chauffeurs[2])
    /\ \E i \in 1..Len(last.created) :
           /\ markerObjs[last.created[i]].icon = "desktopChauffeurIcon"
           /\ markerObjs[last.created[i]].record = last.chauffeurs[2]

---------------------------------------------------------------------------
(* Properties of fitMapToMarkers                                           *)

FitCall == last.op = "fitMapToMarkers"

\* The smallest box around the positions of the listed markers: every
\* position is inside and every side passes through one.
SmallestBox(box, markers) ==
    LET pos == {markerObjs[markers[i]].latlng : i \in 1..Len(markers)}
    IN  /\ \A p \in pos : /\ box.south <= p.lat /\ p.lat <= box.north
                           /\ box.west <= p.lng /\ p.lng <= box.east
        /\ \E p \in pos : p.lat = box.south
        /\ \E p \in pos : p.lat = box.north
        /\ \E p \in pos : p.lng = box.west
        /\ \E p \in pos : p.lng = box.east

\* 2^n
RECURSIVE Pow2(_)
Pow2(n) == IF n = 0 THEN 1 ELSE 2 * Pow2(n - 1)

\* One fitBounds call for the smallest box around the listed markers, with
\* padding 20 and maximum zoom 15, and the view it leaves: a whole zoom level
\* of at most 15, centred in the box, at which the box fits into the
\* viewport less the padding.
BoundsFitDone ==
    /\ Len(last.fitBounds) = 1
    /\ last.setView = <<>>
    /\ SmallestBox(last.fitBounds[1].bounds, last.markers)
    /\ last.fitBounds[1].padding = <<20, 20>>
    /\ last.fitBounds[1].maxZoom = 15
    /\ LET box == last.fitBounds[1].bounds
           v == view[last.map]
           level == v.zoom \div ZoomUnit
       IN  /\ v.zoom = level * ZoomUnit
           /\ level <= 15
           /\ box.south <= v.center.lat /\ v.center.lat <= box.north
           /\ box.west <= v.center.lng /\ v.center.lng <= box.east
           /\ (box.north - box.south) * Pow2(level) <= (ViewportPx - 40) * UnitsPerPx
           /\ (box.east - box.west) * Pow2(level) <= (ViewportPx - 40) * UnitsPerPx

\* C7 (viewport fallback): called with an empty marker list, fitMapToMarkers
\* sets the view to center (28.0339, 1.6596) and zoom 6, whatever forceRefresh
\* and the zoom before are, and calls fitBounds not at all.
C7_EmptyListDefaultView ==
    (FitCall /\ last.markers = <<>>) =>
        /\ view[last.map] = [center |-> [lat |-> 280339, lng |-> 16596],
                             zoom |-> 6 * ZoomUnit]
        /\ last.fitBounds = <<>>
        /\ last.setView = <<[center |-> [lat |-> 280339, lng |-> 16596], zoom |-> 6]>>

\* An empty list with forceRefresh set, on a map that was fitted to markers
\* and then zoomed to level 10 by hand.
C7_Witness ==
    /\ FitCall
    /\ last.markers = <<>>
    /\ last.forceRefresh
    /\ last.viewBefore.zoom = 10 * ZoomUnit
    /\ last.viewBefore.center # DefaultCenter

\* C8 (forced fit): called with a non-empty marker list and forceRefresh set,
\* fitMapToMarkers makes exactly one bounds fit, whatever the zoom before is:
\* the smallest box around the markers, padding 20, maximum zoom 15; the zoom
\* it leaves is at most 15 and every listed marker is inside the fitted box.
C8_ForcedFit ==
    (FitCall /\ last.markers # <<>> /\ last.forceRefresh) => BoundsFitDone

\* A forced fit to a single marker from zoom level 10: the zoom is capped at 15.
C8_Witness ==
    /\ FitCall
    /\ Len(last.markers) = 1
    /\ last.forceRefresh
    /\ last.zoomBefore = 10 * ZoomUnit
    /\ view[last.map].zoom = 15 * ZoomUnit
    /\ view[last.map].center = markerObjs[last.markers[1]].latlng

\* C9 (passive-fit gating): called with a non-empty marker list and without
\* forceRefresh, fitMapToMarkers makes the bounds fit of the forced case when
\* the zoom before differs from 6 by less than one level, and otherwise calls
\* neither fitBounds nor setView and leaves center and zoom as they were.
C9_PassiveFitGating ==
    (FitCall /\ last.markers # <<>> /\ ~last.forceRefresh) =>
        IF /\ last.zoomBefore - 6 * ZoomUnit < ZoomUnit
           /\ 6 * ZoomUnit - last.zoomBefore < ZoomUnit
        THEN BoundsFitDone
        ELSE /\ last.fitBounds = <<>>
             /\ last.setView = <<>>
             /\ view[last.map] = last.viewBefore

\* A passive fit to two markers at different places from zoom 6.5.
C9_Witness ==
    /\ FitCall
    /\ ~last.forceRefresh
    /\ Len(last.markers) = 2
    /\ markerObjs[last.markers[1]].latlng # markerObjs[last.markers[2]].latlng
    /\ 2 * last.zoomBefore = 13 * ZoomUnit
    /\ Len(last.fitBounds) = 1
    /\ view[last.map] # last.viewBefore

\* C10 (confined side effects): a createMarkers call changes no map's center
\* or zoom, no layer set but that of the map passed to it and no marker that
\* existed before; a fitMapToMarkers call changes neither markerCache nor a
\* marker nor a layer set, and no view but that of the map passed to it.
C10_ConfinedEffects ==
    [][/\ last'.op = "createMarkers" =>
            /\ view' = view
            /\ \A m \in Maps \ {last'.map} : layers'[m] = layers[m]
            /\ \A h \in 1..Len(markerObjs) : markerObjs'[h] = markerObjs[h]
       /\ last'.op = "fitMapToMarkers" =>
            /\ markerCache' = markerCache
            /\ markerObjs' = markerObjs
            /\ layers' = layers
            /\ \A m \in Maps \ {last'.map} : view'[m] = view[m]]_vars

\* A pass on one map that evicted a marker still attached to the other map,
\* whose view had been changed before.
C10_Witness ==
    /\ Pass
    /\ last.removed # {}
    /\ \E m \in Maps \ {last.map} :
           /\ last.removed \cap layers[m] # {}
           /\ view[m] # SetView(DefaultCenter, DefaultZoom)

---------------------------------------------------------------------------
(* Properties of the popup and of the click listener                       *)

IsWarehouseMarker(marker) == marker.icon \in {"warehouseIcon", "desktopWarehouseIcon"}
IsChauffeurMarker(marker) == marker.icon \in {"chauffeurIcon", "desktopChauffeurIcon"}

\* The bytes a percent-encoded string stands for, and the string those bytes
\* are the UTF-8 encoding of.
HexValue(d) == IF d <= 57 THEN d - 48 ELSE d - 55

RECURSIVE UnescapeBytes(_)
UnescapeBytes(enc) ==
    IF enc = <<>> THEN <<>>
    ELSE IF Head(enc) = 37 /\ Len(enc) >= 3
    THEN <<16 * HexValue(enc[2]) + HexValue(enc[3])>>
             \o UnescapeBytes(SubSeq(enc, 4, Len(enc)))
    ELSE <<Head(enc)>> \o UnescapeBytes(Tail(enc))

RECURSIVE Utf8Decode(_)
Utf8Decode(bytes) ==
    IF bytes = <<>> THEN <<>>
    ELSE IF Head(bytes) >= 224 /\ Len(bytes) >= 3
    THEN <<(Head(bytes) - 224) * 4096 + (bytes[2] - 128) * 64 + (bytes[3] - 128)>>
             \o Utf8Decode(SubSeq(bytes, 4, Len(bytes)))
    ELSE IF Head(bytes) >= 192 /\ Len(bytes) >= 2
    THEN <<(Head(bytes) - 192) * 64 + (bytes[2] - 128)>>
             \o Utf8Decode(SubSeq(bytes, 3, Len(bytes)))
    ELSE <<Head(bytes)>> \o Utf8Decode(Tail(bytes))

\* `enc` is a percent-encoding of `name`: nothing but unreserved characters
\* and %XX escapes, and it decodes to `name`.
PercentEncodes(enc, name) ==
    /\ \A i \in 1..Len(enc) : enc[i] \in UriUnreserved \cup {37}
    /\ Utf8Decode(UnescapeBytes(enc)) = name

\* `link` is https://www.google.com/maps/search/?api=1&query=<lat>,<lng>&query_place_id=<name>
IsMapsLink(link, c, name) ==
    /\ Len(link) = 6
    /\ link[1] = "https://www.google.com/maps/search/?api=1&query="
    /\ link[2] = c.lat
    /\ link[3] = ","
    /\ link[4] = c.lng
    /\ link[5] = "&query_place_id="
    /\ PercentEncodes(link[6], name)

NameOf(marker) ==
    IF IsWarehouseMarker(marker) THEN marker.record.name ELSE marker.record.fullName

HasMapsLink(marker) ==
    \E i \in 1..Len(marker.popup.links) :
        IsMapsLink(marker.popup.links[i], marker.latlng, NameOf(marker))

\* C11 as stated (outbound link, warehouse and driver alike): the popup of
\* every marker a pass has created contains the Google Maps search link of the
\* record's coordinate and percent-encoded name.
C11_OutboundLinkAll ==
    Pass => \A h \in Range(last.created) : HasMapsLink(markerObjs[h])

\* C11 (outbound link, amended): the popup of every warehouse marker a pass has
\* created contains exactly one link, the Google Maps search link
\* ...?api=1&query=<lat>,<lng>&query_place_id=<name> of the warehouse's
\* coordinate and percent-encoded name; the popup of a chauffeur marker
\* contains no link.
C11_WarehouseLink ==
    Pass => \A h \in Range(last.created) :
                IF IsWarehouseMarker(markerObjs[h])
                THEN /\ Len(markerObjs[h].popup.links) = 1
                     /\ HasMapsLink(markerObjs[h])
                ELSE markerObjs[h].popup.links = <<>>

\* A pass that created a chauffeur marker and the marker of a warehouse whose
\* name has a space, an accented letter and so escapes in its link.
C11_Witness ==
    /\ Pass
    /\ \E h \in Range(last.created) :
           /\ IsWarehouseMarker(markerObjs[h])
           /\ markerObjs[h].record.name = DepotName
           /\ markerObjs[h].popup.links[1][6] # DepotName
    /\ \E h \in Range(last.created) : IsChauffeurMarker(markerObjs[h])

---------------------------------------------------------------------------
(* Properties of the marker lifecycle                                      *)

\* The composite key of the record a marker was built from.
KeyOfMarker(marker) ==
    <<IF IsWarehouseMarker(marker) THEN "warehouse" ELSE "chauffeur", marker.record.id>>

\* The first record of a pass's input that asks for key `k`.
FirstIndex(P(_), n) == CHOOSE i \in 1..n : P(i) /\ \A j \in 1..(i - 1) : ~P(j)
FirstRecordFor(k, warehouses, chauffeurs) ==
    IF k[1] = "warehouse"
    THEN LET Asks(i) == warehouses[i].id = k[2]
         IN  [kind |-> "warehouse", rec |-> warehouses[FirstIndex(Asks, Len(warehouses))]]
    ELSE LET Asks(i) == Qualifies(chauffeurs[i]) /\ chauffeurs[i].id = k[2]
         IN  [kind |-> "chauffeur", rec |-> chauffeurs[FirstIndex(Asks, Len(chauffeurs))]]

BuiltFrom(marker, from) ==
    IF from.kind = "warehouse"
    THEN /\ IsWarehouseMarker(marker)
         /\ marker.record = from.rec
         /\ marker.latlng = from.rec.coordinates
    ELSE /\ IsChauffeurMarker(marker)
         /\ marker.record = from.rec
         /\ marker.latlng = from.rec.coordinates[1]

\* C12 (marker lifecycle): in every pass that returns, a key the input asks
\* for that is not cached when the pass starts gets a handle constructed in
\* this pass (one that no earlier pass has held, so never the handle evicted
\* for that key before), built from this pass's record and returned; a key
\* that is cached when the pass starts keeps the identical handle, which is
\* returned and not constructed again.
C12_Lifecycle ==
    [][(last'.op = "createMarkers" /\ last'.status = "returned") =>
          \A k \in TargetKeys(last'.warehouses, last'.chauffeurs) :
              /\ k \in DOMAIN markerCache'
              /\ markerCache'[k] \in Range(last'.returned)
              /\ IF k \in DOMAIN markerCache
                 THEN /\ markerCache'[k] = markerCache[k]
                      /\ markerCache[k] \notin Range(last'.created)
                 ELSE /\ markerCache'[k] \notin 1..Len(markerObjs)
                      /\ markerCache'[k] \in Range(last'.created)
                      /\ BuiltFrom(markerObjs'[markerCache'[k]],
                                   FirstRecordFor(k, last'.warehouses, last'.chauffeurs))]_vars

\* A pass that returned a handle cached by an earlier pass and constructed a
\* new handle for a key whose earlier handle, built from another record, had
\* been evicted.
C12_Witness ==
    /\ Returned
    /\ \E h \in Range(last.returned) : h \notin Range(last.created)
    /\ \E h \in Range(last.created) :
           \E old \in 1..(h - 1) :
               /\ KeyOfMarker(markerObjs[old]) = KeyOfMarker(markerObjs[h])
               /\ old \notin CachedHandles
               /\ markerObjs[old].record # markerObjs[h].record

\* C13 (eviction detaches everywhere): when a pass returns, every handle it
\* has evicted from markerCache is a layer of no map at all, whichever maps
\* earlier passes were given, and no map has a layer that is not a handle in
\* markerCache.
C13_DetachedEverywhere ==
    [][(last'.op = "createMarkers" /\ last'.status = "returned") =>
          /\ \A k \in DOMAIN markerCache :
                 k \notin DOMAIN markerCache' =>
                     \A m \in Maps : markerCache[k] \notin layers'[m]
          /\ \A m \in Maps :
                 layers'[m] \subseteq {markerCache'[k] : k \in DOMAIN markerCache'}]_vars

---------------------------------------------------------------------------
(* Properties of manual navigation                                         *)

\* C14 (manual navigation is not overridden): a fitMapToMarkers call with
\* forceRefresh = false and a non-empty marker list that follows a manual zoom
\* or a manual pan of the same map changes neither the centre nor the zoom of
\* that map.
C14_ManualViewKept ==
    [][(/\ last.op \in {"userZoom", "userPan"}
        /\ last'.op = "fitMapToMarkers"
        /\ last'.map = last.map
        /\ ~last'.forceRefresh
        /\ last'.markers # <<>>)
          => view'[last.map] = view[last.map]]_vars

\* C15 (reuse leaves the handle unchanged): a pass changes no marker that
\* exists when it starts; a cached marker it reuses keeps the position, the
\* icon, the popup and the click listener (captured record and callback) it
\* was created with, whatever the record, isMobile and callbacks of the pass.
C15_ReuseUnchanged ==
    [][last'.op = "createMarkers" =>
          /\ Len(markerObjs') >= Len(markerObjs)
          /\ \A h \in 1..Len(markerObjs) : markerObjs'[h] = markerObjs[h]]_vars

\* A pass that reused the marker of a warehouse whose record now has another
\* coordinate, with another isMobile and another callback than the marker was
\* created with.
C15_Witness ==
    /\ Returned
    /\ \E i \in 1..Len(last.warehouses) :
           LET h == last.returned[i]
           IN  /\ h \notin Range(last.created)
               /\ markerObjs[h].latlng # last.warehouses[i].coordinates
               /\ markerObjs[h].record # last.warehouses[i]
               /\ markerObjs[h].icon # WarehouseIconToUse(last.opts.isMobile)
               /\ markerObjs[h].popup # WarehousePopup(last.warehouses[i], last.opts.isMobile)
               /\ markerObjs[h].callback # last.opts.onWarehouseClick

\* C16 (click behaviour): a click on a marker opens that marker's popup and
\* nothing else; on a warehouse marker it calls the onWarehouseClick given to
\* the pass that created the marker exactly once, with the warehouse record
\* the marker was built from, and never onChauffeurClick; on a chauffeur marker
\* it calls onChauffeurClick once with the chauffeur record and never
\* onWarehouseClick; when that callback was not given, no callback is called;
\* the click changes neither markerCache nor the markers nor any map's layers.
C16_Click ==
    [][/\ last'.op = "createMarkers" =>
              \A h \in Range(last'.created) :
                  markerObjs'[h].callback =
                      IF IsWarehouseMarker(markerObjs'[h])
                      THEN last'.opts.onWarehouseClick
                      ELSE last'.opts.onChauffeurClick
       /\ last'.op = "click" =>
              LET marker == markerObjs[last'.marker]
                  expected == IF IsWarehouseMarker(marker)
                              THEN "onWarehouseClick" ELSE "onChauffeurClick"
              IN  /\ markerCache' = markerCache
                  /\ markerObjs' = markerObjs
                  /\ layers' = layers
                  /\ last'.openPopup = <<last'.marker>>
                  /\ Len(last'.calls) = IF marker.callback = Undefined THEN 0 ELSE 1
                  /\ \A i \in 1..Len(last'.calls) :
                         /\ last'.calls[i].fn = expected
                         /\ last'.calls[i].arg = marker.record]_vars

\* A click on a warehouse marker that called onWarehouseClick, while the map
\* also shows a chauffeur marker created without callback.
C16_Witness ==
    /\ last.op = "click"
    /\ IsWarehouseMarker(markerObjs[last.marker])
    /\ Len(last.calls) = 1
    /\ \E h \in layers[last.map] :
           IsChauffeurMarker(markerObjs[h]) /\ markerObjs[h].callback = Undefined

---------------------------------------------------------------------------
(* Properties of invalid input                                             *)

ValidCoordinate(c) == ~IsNaN(c.lat) /\ ~IsNaN(c.lng)

\* The keys of the records of a pass's input whose coordinate is valid.
ValidKeys(warehouses, chauffeurs) ==
    {<<"warehouse", w.id>> : w \in {v \in Range(warehouses) : ValidCoordinate(v.coordinates)}}
        \cup {<<"chauffeur", c.id>> :
                 c \in {d \in Range(chauffeurs) :
                           Qualifies(d) /\ ValidCoordinate(d.coordinates[1])}}

\* C17 (an invalid coordinate does not abort the pass): every pass completes
\* and returns, also when a record's coordinate cannot be placed on the map;
\* at its end every record with a valid coordinate has its key in markerCache
\* and its marker on the map, and every key the input does not ask for has
\* been evicted.
C17_InvalidCoordinateTolerated ==
    Pass =>
        /\ last.status = "returned"
        /\ \A k \in ValidKeys(last.warehouses, last.chauffeurs) :
               k \in DOMAIN markerCache /\ markerCache[k] \in layers[last.map]
        /\ DOMAIN markerCache \subseteq TargetKeys(last.warehouses, last.chauffeurs)

---------------------------------------------------------------------------
(* Properties of the composite keys                                        *)

\* The live handles: markerCache decides which markers exist.
LiveHandles == CachedHandles

NoRepeats(s) == \A i, j \in 1..Len(s) : s[i] = s[j] => i = j

\* The records of `chauffeurs` that have coordinates, in order.
RECURSIVE Qualifying(_)
Qualifying(chauffeurs) ==
    IF chauffeurs = <<>> THEN <<>>
    ELSE (IF Qualifies(Head(chauffeurs)) THEN <<Head(chauffeurs)>> ELSE <<>>)
         \o Qualifying(Tail(chauffeurs))

\* C18 (key uniqueness under colliding ids): at no point are there two
\* distinct live markers for one composite key, and every live marker is
\* cached under the key of its own record; a warehouse and a chauffeur
\* with the same id have different keys and different markers; when a list has
\* the same id more than once, the pass constructs at most one marker for it,
\* built from the first occurrence, attaches no marker twice, and returns the
\* handle of the key once per occurrence.
C18_KeyUniqueness ==
    /\ \A g, h \in LiveHandles :
           KeyOfMarker(markerObjs[g]) = KeyOfMarker(markerObjs[h]) => g = h
    /\ \A k \in DOMAIN markerCache : KeyOfMarker(markerObjs[markerCache[k]]) = k
    /\ Returned =>
           LET drivers == Qualifying(last.chauffeurs)
           IN  /\ NoRepeats(last.created)
               /\ NoRepeats(last.added)
               /\ \A g, h \in Range(last.created) :
                      KeyOfMarker(markerObjs[g]) = KeyOfMarker(markerObjs[h]) => g = h
               /\ \A h \in Range(last.created) :
                      BuiltFrom(markerObjs[h],
                                FirstRecordFor(KeyOfMarker(markerObjs[h]),
                                               last.warehouses, last.chauffeurs))
               /\ Len(last.returned) = Len(last.warehouses) + Len(drivers)
               /\ \A i \in 1..Len(last.warehouses) :
                      last.returned[i] = markerCache[<<"warehouse", last.warehouses[i].id>>]
               /\ \A i \in 1..Len(drivers) :
                      last.returned[Len(last.warehouses) + i]
                          = markerCache[<<"chauffeur", drivers[i].id>>]
               /\ \A w \in Range(last.warehouses), d \in Range(drivers) :
                      markerCache[<<"warehouse", w.id>>] # markerCache[<<"chauffeur", d.id>>]

\* A pass that was given the same warehouse id twice and a chauffeur with
\* that id, and constructed markers.
C18_Witness ==
    /\ Returned
    /\ Len(last.warehouses) = 2
    /\ last.warehouses[1].id = last.warehouses[2].id
    /\ \E i \in 1..Len(last.chauffeurs) :
           Qualifies(last.chauffeurs[i]) /\ last.chauffeurs[i].id = last.warehouses[1].id
    /\ Len(last.created) = 2
    /\ last.returned[1] = last.returned[2]

=============================================================================
